---- MODULE Spec2Model ----
(***************************************************************************)
(* Model of jptext_extract: the reading-keyed deduplicator                 *)
(* (tokenizer.py), the cached analyzer handle (_get_tokenizer) and the     *)
(* text normalizer (pdf_processing.filter_non_japanese).                   *)
(* Strings are sequences of code points.                                   *)
(***************************************************************************)
EXTENDS Integers, Sequences, FiniteSets, TLC

\* ---------------------------------------------------------------- bounds
MaxUnits == 2
MaxMorphs == 2
MaxCalls == 2
NumThreads == 3
MaxLen == 3

Threads == 1..NumThreads

\* ------------------------------------------------------- code points used
SPACE == 32
HIRA_HA == 12399
KATA_HA == 12495
KANJI_HASHI == 27211
KANJI_HASHI2 == 31471
KATA_LO == 12449
KATA_HI == 12534
KATA_SHIFT == 96
KANJI_LO == 19968
KANJI_HI == 40959
IDEO_SPACE == 12288
KATA_LONG == 12540
HIRA_KA == 12363
HIRA_GA == 12364
DAKUTEN == 12441
HALF_DAKUTEN == 65438
LATIN_A == 97
FULL_A == 65313

\* major part-of-speech tags
SYMBOL == "kigou"
NOUN == "meishi"
PARTICLE == "joshi"

\* --------------------------------------------------------- string helpers
\* str.isspace() on the characters of the model alphabet
IsSpace(c) == c \in {SPACE, IDEO_SPACE}

RECURSIVE LStrip(_)
LStrip(s) == IF s # <<>> /\ IsSpace(Head(s)) THEN LStrip(Tail(s)) ELSE s

RECURSIVE RStrip(_)
RStrip(s) ==
    IF s # <<>> /\ IsSpace(s[Len(s)]) THEN RStrip(SubSeq(s, 1, Len(s) - 1)) ELSE s

\* str.strip()
Strip(s) == RStrip(LStrip(s))

\* "".join(parts)
RECURSIVE Join(_)
Join(parts) == IF parts = <<>> THEN <<>> ELSE Head(parts) \o Join(Tail(parts))

\* Python's str "<": lexicographic by code point, a proper prefix is smaller
RECURSIVE StrLess(_, _)
StrLess(a, b) ==
    IF b = <<>> THEN FALSE
    ELSE IF a = <<>> THEN TRUE
    ELSE IF Head(a) # Head(b) THEN Head(a) < Head(b)
    ELSE StrLess(Tail(a), Tail(b))

_katakana_to_hiragana(text) ==
    [i \in 1..Len(text) |->
        IF KATA_LO <= text[i] /\ text[i] <= KATA_HI
            THEN text[i] - KATA_SHIFT
            ELSE text[i]]

_contains_kanji(text) ==
    \E i \in 1..Len(text) : KANJI_LO <= text[i] /\ text[i] <= KANJI_HI

\* --------------------------------------------------------------- inputs
\* What the analyzer may report for one morpheme.  The analyzer is external:
\* a run fixes its lexicon, and every morpheme it yields comes from it.
PosTags == { SYMBOL, NOUN, PARTICLE }

\* one reading, kana and kanji spellings, every kind of dictionary form
LexiconSpellings ==
    [surface : { <<HIRA_HA>>, <<KANJI_HASHI>> },
     reading_form : { <<>>, <<KATA_HA>>, <<SPACE, KATA_HA>> },
     dictionary_form : { <<>>, <<KATA_HA>>, <<KANJI_HASHI2>> },
     pos : PosTags]

\* several readings, among them one that the conversion leaves alone
LexiconReadings ==
    [surface : { <<HIRA_HA>> },
     reading_form : { <<KATA_HA>>, <<KATA_LONG>>, <<IDEO_SPACE, KATA_HA, SPACE>> },
     dictionary_form : { <<>>, <<KANJI_HASHI2>> },
     pos : { NOUN, PARTICLE }]

Lexicons == { "spellings", "readings" }

LexiconOf(name) == IF name = "spellings" THEN LexiconSpellings ELSE LexiconReadings

NoMorpheme ==
    [surface |-> <<>>, reading_form |-> <<>>, dictionary_form |-> <<>>, pos |-> SYMBOL]

\* input units
Texts == { <<>>, <<SPACE>>, <<HIRA_HA>> }

\* ---------------------------------------------------------------- state
VARIABLES
    lexicon,      \* which lexicon the analyzer of this run has
    pc,           \* position in tokenize_and_deduplicate
    units,        \* number of units taken from texts so far
    text,         \* loop variable of "for text in texts"
    count,        \* morphemes consumed from tokenizer.tokenize(text, mode)
    morpheme,     \* loop variable of "for morpheme in ..."
    token_infos,  \* survivors of the current unit
    by_reading,   \* reading -> [order, has_kanji]
    results,      \* the returned list
    kanji_log,    \* history: reading -> kanji surfaces in first-registration order
    phrases,      \* history: phrase pairs of the units that met the phrase condition
    t_pc,         \* per thread: position around "tokenizer = _get_tokenizer()"
    calls,        \* per thread: completed calls of tokenize_and_deduplicate
    tokenizer,    \* per thread: the local "tokenizer" of the running call
    cache,        \* the lru_cache slot of _get_tokenizer
    built,        \* how many times dictionary.Dictionary().create() has run
    raw,          \* the string handed to filter_non_japanese
    once,         \* filter_non_japanese(raw)
    twice,        \* filter_non_japanese(once)
    n_pc          \* position of the normalizer run

dedupVars == << lexicon, pc, units, text, count, morpheme, token_infos, by_reading,
                results, kanji_log, phrases >>
threadVars == << t_pc, calls, tokenizer, cache, built >>
normVars == << raw, once, twice, n_pc >>

vars == << dedupVars, threadVars, normVars >>

\* ------------------------------------------------------ _register_surface
NewEntry == [order |-> <<>>, has_kanji |-> FALSE]

\* variant: membership is never detected
Mut_InOrder_never(order, surface) == FALSE

InOrder(order, surface) == \E i \in 1..Len(order) : order[i] = surface

\* by_reading.setdefault(reading, {...})
SetDefault(br, reading) ==
    IF reading \in DOMAIN br THEN br
    ELSE [r \in DOMAIN br \cup {reading} |-> IF r = reading THEN NewEntry ELSE br[r]]

\* variant: the kana surfaces are not cleared when the first kanji arrives
Mut_register_no_clear(br, reading, surface) ==
    IF reading = <<>> \/ surface = <<>> THEN br
    ELSE
        LET br1 == SetDefault(br, reading)
            entry == br1[reading]
        IN  IF InOrder(entry.order, surface) THEN br1
            ELSE IF _contains_kanji(surface) THEN
                [br1 EXCEPT ![reading] =
                    [order |-> Append(entry.order, surface), has_kanji |-> TRUE]]
            ELSE IF entry.has_kanji THEN br1
            ELSE [br1 EXCEPT ![reading].order = Append(entry.order, surface)]

_register_surface(br, reading, surface) ==
    IF reading = <<>> \/ surface = <<>> THEN br
    ELSE
        LET br1 == SetDefault(br, reading)
            entry == br1[reading]
        IN  IF InOrder(entry.order, surface) THEN br1
            ELSE IF _contains_kanji(surface) THEN
                LET cleared == IF ~entry.has_kanji THEN <<>> ELSE entry.order
                IN  [br1 EXCEPT ![reading] =
                        [order |-> Append(cleared, surface), has_kanji |-> TRUE]]
            ELSE IF entry.has_kanji THEN br1
            ELSE [br1 EXCEPT ![reading].order = Append(entry.order, surface)]

\* history of the kanji surfaces handed to _register_surface
LogKanji(log, reading, surface) ==
    IF reading = <<>> \/ surface = <<>> \/ ~_contains_kanji(surface) THEN log
    ELSE IF reading \notin DOMAIN log
        THEN [r \in DOMAIN log \cup {reading} |->
                 IF r = reading THEN <<surface>> ELSE log[r]]
    ELSE IF \E i \in 1..Len(log[reading]) : log[reading][i] = surface THEN log
    ELSE [log EXCEPT ![reading] = Append(log[reading], surface)]

\* ------------------------------------------------ tokenize_and_deduplicate
\* pos[0] == "記号"
Mut_IsSymbol_never(m) == FALSE

IsSymbol(m) == m.pos = SYMBOL

\* variant: the dictionary form is taken whenever there is one
Mut_CanonicalSurface_dict(m) ==
    IF m.dictionary_form # <<>> THEN m.dictionary_form ELSE m.surface

\* morpheme.dictionary_form() or morpheme.surface(), then the kanji test
CanonicalSurface(m) ==
    LET canonical == IF m.dictionary_form # <<>> THEN m.dictionary_form ELSE m.surface
    IN  IF _contains_kanji(canonical) THEN canonical ELSE m.surface

ReadingKey(m) == Strip(_katakana_to_hiragana(m.reading_form))

TokenInfo(m) ==
    [reading |-> ReadingKey(m), surface |-> CanonicalSurface(m),
     original_surface |-> m.surface, pos_major |-> m.pos]

\* variant: any two survivors make a phrase
Mut_PhraseCondition_len(infos) == Len(infos) >= 2

\* the condition of the phrase branch
PhraseCondition(infos) ==
    Len(infos) >= 2 /\ \E i \in 1..Len(infos) : infos[i].pos_major # NOUN

PhraseReading(infos) == Strip(Join([i \in 1..Len(infos) |-> infos[i].reading]))
\* variant: the phrase is built from the canonical surfaces
Mut_PhraseSurface_canonical(infos) ==
    Strip(Join([i \in 1..Len(infos) |-> infos[i].surface]))

PhraseSurface(infos) == Strip(Join([i \in 1..Len(infos) |-> infos[i].original_surface]))

\* variant: descending order
RECURSIVE Mut_SortedKeys_desc(_)
Mut_SortedKeys_desc(S) ==
    IF S = {} THEN <<>>
    ELSE LET greatest == CHOOSE k \in S : \A o \in S \ {k} : StrLess(o, k)
         IN  <<greatest>> \o Mut_SortedKeys_desc(S \ {greatest})

\* sorted(by_reading.keys())
RECURSIVE SortedKeys(_)
SortedKeys(S) ==
    IF S = {} THEN <<>>
    ELSE LET least == CHOOSE k \in S : \A o \in S \ {k} : StrLess(k, o)
         IN  <<least>> \o SortedKeys(S \ {least})

RECURSIVE Rows(_, _)
Rows(br, keys) ==
    IF keys = <<>> THEN <<>>
    ELSE LET reading == Head(keys)
             order == br[reading].order
         IN  [i \in 1..Len(order) |-> <<reading, order[i]>>] \o Rows(br, Tail(keys))

\* ---------------------------------------------------------- _get_tokenizer
\* @lru_cache(maxsize=1): a call looks the slot up; on a miss it runs the
\* wrapped function without holding any lock and afterwards fills the slot
\* unless another call has filled it meanwhile; it returns its own result.
NoInstance == 0

\* line 81, the cache lookup of the wrapper
Lookup(t) ==
    /\ t_pc[t] = "idle"
    /\ calls[t] < MaxCalls
    /\ IF cache # NoInstance
         THEN /\ tokenizer' = [tokenizer EXCEPT ![t] = cache]
              /\ t_pc' = [t_pc EXCEPT ![t] = "running"]
         ELSE /\ t_pc' = [t_pc EXCEPT ![t] = "constructing"]
              /\ UNCHANGED tokenizer
    /\ UNCHANGED << calls, cache, built >>

\* line 21 returns: a new analyzer exists; the wrapper stores it if the slot
\* is still empty and hands the new analyzer to its caller
Construct(t) ==
    /\ t_pc[t] = "constructing"
    /\ built' = built + 1
    /\ cache' = IF cache = NoInstance THEN built + 1 ELSE cache
    /\ tokenizer' = [tokenizer EXCEPT ![t] = built + 1]
    /\ t_pc' = [t_pc EXCEPT ![t] = "running"]
    /\ UNCHANGED calls

\* lines 82-129 with the analyzer in "tokenizer"
Return(t) ==
    /\ t_pc[t] = "running"
    /\ t_pc' = [t_pc EXCEPT ![t] = "idle"]
    /\ calls' = [calls EXCEPT ![t] = calls[t] + 1]
    /\ UNCHANGED << tokenizer, cache, built >>

ThreadsNext ==
    /\ \E t \in Threads : Lookup(t) \/ Construct(t) \/ Return(t)
    /\ UNCHANGED << dedupVars, normVars >>

\* ------------------------------------------------------ filter_non_japanese
\* unicodedata.normalize("NFKC", text) on the model alphabet: compatibility
\* decomposition, then composition of a base with the mark that follows it
Decompose(c) ==
    IF c = HIRA_GA THEN <<HIRA_KA, DAKUTEN>>
    ELSE IF c = IDEO_SPACE THEN <<SPACE>>
    ELSE IF c = HALF_DAKUTEN THEN <<DAKUTEN>>
    ELSE IF c = FULL_A THEN <<LATIN_A>>
    ELSE <<c>>

RECURSIVE DecomposeAll(_)
DecomposeAll(s) == IF s = <<>> THEN <<>> ELSE Decompose(Head(s)) \o DecomposeAll(Tail(s))

RECURSIVE ComposeInto(_, _)
ComposeInto(out, rest) ==
    IF rest = <<>> THEN out
    ELSE IF Head(rest) = DAKUTEN /\ out # <<>> /\ out[Len(out)] = HIRA_KA
        THEN ComposeInto(SubSeq(out, 1, Len(out) - 1) \o <<HIRA_GA>>, Tail(rest))
    ELSE ComposeInto(Append(out, Head(rest)), Tail(rest))

NFKC(s) == ComposeInto(<<>>, DecomposeAll(s))

\* _JAPANESE_RANGES
InJapaneseRanges(c) ==
    \/ 12288 <= c /\ c <= 12351
    \/ 12352 <= c /\ c <= 12447
    \/ 12448 <= c /\ c <= 12543
    \/ 12784 <= c /\ c <= 12799
    \/ 13312 <= c /\ c <= 19903
    \/ 19968 <= c /\ c <= 40959
    \/ 65281 <= c /\ c <= 65374
    \/ 65382 <= c /\ c <= 65439

\* the loop over the characters of the normalized text
RECURSIVE FilterChars(_)
FilterChars(s) ==
    IF s = <<>> THEN <<>>
    ELSE (IF IsSpace(Head(s)) THEN <<SPACE>>
          ELSE IF InJapaneseRanges(Head(s)) THEN <<Head(s)>>
          ELSE <<>>) \o FilterChars(Tail(s))

\* re.sub(r"\s+", " ", text)
RECURSIVE CollapseSpaces(_)
CollapseSpaces(s) ==
    IF s = <<>> THEN <<>>
    ELSE IF IsSpace(Head(s))
        THEN <<SPACE>> \o CollapseSpaces(LStrip(Tail(s)))
    ELSE <<Head(s)>> \o CollapseSpaces(Tail(s))

filter_non_japanese(s) ==
    IF s = <<>> THEN <<>>
    ELSE LET normalized == NFKC(s)
             replaced == [i \in 1..Len(normalized) |->
                             IF normalized[i] = IDEO_SPACE THEN SPACE ELSE normalized[i]]
         IN  Strip(CollapseSpaces(FilterChars(replaced)))

NormAlphabet == { HIRA_KA, HIRA_GA, DAKUTEN, HALF_DAKUTEN, LATIN_A, FULL_A, SPACE, IDEO_SPACE }

RECURSIVE StringsUpTo(_)
StringsUpTo(n) ==
    IF n = 0 THEN { <<>> }
    ELSE LET shorter == StringsUpTo(n - 1)
         IN  shorter \cup { Append(s, c) : s \in shorter, c \in NormAlphabet }

NormalizeOnce ==
    /\ n_pc = "raw"
    /\ once' = filter_non_japanese(raw)
    /\ n_pc' = "once"
    /\ UNCHANGED << raw, twice >>

NormalizeAgain ==
    /\ n_pc = "once"
    /\ twice' = filter_non_japanese(once)
    /\ n_pc' = "twice"
    /\ UNCHANGED << raw, once >>

NormNext ==
    /\ NormalizeOnce \/ NormalizeAgain
    /\ UNCHANGED << dedupVars, threadVars >>

\* the head of "for text in texts" is reached at the start and after a unit
AtLoopHead == pc \in {"texts", "unit_end"}

\* "if not text: continue".  token_infos, morpheme and count are not read
\* again before line 90 rebinds them, so the loop head forgets them.
SkipUnit ==
    /\ AtLoopHead
    /\ units < MaxUnits
    /\ \E t \in Texts :
        /\ t = <<>>
        /\ text' = t
    /\ units' = units + 1
    /\ pc' = "texts"
    /\ token_infos' = <<>>
    /\ count' = 0
    /\ morpheme' = NoMorpheme
    /\ UNCHANGED << threadVars, normVars, lexicon, by_reading, results, kanji_log, phrases >>

\* a non-empty unit: token_infos = [] and the analyzer is called
BeginUnit ==
    /\ AtLoopHead
    /\ units < MaxUnits
    /\ \E t \in Texts :
        /\ t # <<>>
        /\ text' = t
    /\ units' = units + 1
    /\ token_infos' = <<>>
    /\ count' = 0
    /\ morpheme' = NoMorpheme
    /\ pc' = "tokens"
    /\ UNCHANGED << threadVars, normVars, lexicon, by_reading, results, kanji_log, phrases >>

\* one iteration of "for morpheme in tokenizer.tokenize(text, mode)"
NextMorpheme ==
    /\ pc = "tokens"
    /\ count < MaxMorphs
    /\ \E m \in LexiconOf(lexicon) :
        /\ morpheme' = m
        /\ count' = count + 1
        /\ IF IsSymbol(m) \/ ReadingKey(m) = <<>>
             THEN UNCHANGED << token_infos, by_reading, kanji_log >>
             ELSE /\ by_reading' =
                        _register_surface(by_reading, ReadingKey(m), CanonicalSurface(m))
                  /\ kanji_log' = LogKanji(kanji_log, ReadingKey(m), CanonicalSurface(m))
                  /\ token_infos' = Append(token_infos, TokenInfo(m))
    /\ UNCHANGED << threadVars, normVars, lexicon, pc, units, text, results, phrases >>

\* the analyzer's sequence is exhausted: phrase assembly
EndUnit ==
    /\ pc = "tokens"
    /\ IF PhraseCondition(token_infos)
         THEN /\ by_reading' = _register_surface(by_reading,
                      PhraseReading(token_infos), PhraseSurface(token_infos))
              /\ kanji_log' = LogKanji(kanji_log,
                      PhraseReading(token_infos), PhraseSurface(token_infos))
              /\ phrases' = phrases \cup
                    { << Join([i \in 1..Len(token_infos) |-> token_infos[i].reading]),
                         Join([i \in 1..Len(token_infos) |->
                                  token_infos[i].original_surface]) >> }
         ELSE UNCHANGED << by_reading, kanji_log, phrases >>
    /\ pc' = "unit_end"
    /\ UNCHANGED << threadVars, normVars, lexicon, units, text, count, morpheme, token_infos, results >>

\* texts is exhausted: build and return the rows
Finalize ==
    /\ AtLoopHead
    /\ results' = Rows(by_reading, SortedKeys(DOMAIN by_reading))
    /\ pc' = "done"
    /\ token_infos' = <<>>
    /\ count' = 0
    /\ morpheme' = NoMorpheme
    /\ UNCHANGED << threadVars, normVars, lexicon, units, text, by_reading, kanji_log, phrases >>

Next == SkipUnit \/ BeginUnit \/ NextMorpheme \/ EndUnit \/ Finalize

\* the state after line 84 of one call; no other thread, no normalizer run
Init ==
    /\ lexicon \in Lexicons
    /\ pc = "texts"
    /\ units = 0
    /\ text = <<>>
    /\ count = 0
    /\ morpheme = NoMorpheme
    /\ token_infos = <<>>
    /\ by_reading = << >>
    /\ results = <<>>
    /\ kanji_log = << >>
    /\ phrases = {}
    /\ t_pc = [t \in Threads |-> "idle"]
    /\ calls = [t \in Threads |-> 0]
    /\ tokenizer = [t \in Threads |-> NoInstance]
    /\ cache = NoInstance
    /\ built = 0
    /\ raw = <<>>
    /\ once = <<>>
    /\ twice = <<>>
    /\ n_pc = "idle"

Spec == Init /\ [][Next]_vars

\* ------------------------------------------------------------ properties
AllKanji(order) == \A i \in 1..Len(order) : _contains_kanji(order[i])
AllKana(order) == \A i \in 1..Len(order) : ~_contains_kanji(order[i])

\* the surfaces of the rows of res whose reading is r, in row order
RECURSIVE SurfacesOf(_, _)
SurfacesOf(res, r) ==
    IF res = <<>> THEN <<>>
    ELSE (IF Head(res)[1] = r THEN <<Head(res)[2]>> ELSE <<>>) \o SurfacesOf(Tail(res), r)

HasRow(res, row) == \E i \in 1..Len(res) : res[i] = row

\* the step that consumed one morpheme, and whether that morpheme survived
MorphemeStep == pc = "tokens" /\ count' = count + 1
Survived == MorphemeStep /\ Len(token_infos') = Len(token_infos) + 1

\* C1: every non-empty reading group is kanji-only or kana-only; a reading
\* that ever received a kanji-bearing surface holds, and outputs, no
\* purely-kana surface, whichever arrived first.
Thm_C1_KanjiPrecedence ==
    /\ \A r \in DOMAIN by_reading :
        /\ by_reading[r].order # <<>>
        /\ AllKanji(by_reading[r].order) \/ AllKana(by_reading[r].order)
        /\ r \in DOMAIN kanji_log => AllKanji(by_reading[r].order)
    /\ pc = "done" =>
        \A i \in 1..Len(results) :
            results[i][1] \in DOMAIN kanji_log => _contains_kanji(results[i][2])

\* a unit registered a kana surface and then a kanji surface for one reading
Wit_C1 ==
    /\ pc = "tokens"
    /\ Len(token_infos) = 2
    /\ token_infos[1].reading = token_infos[2].reading
    /\ ~_contains_kanji(token_infos[1].surface)
    /\ _contains_kanji(token_infos[2].surface)
    /\ by_reading[token_infos[1].reading].order = <<token_infos[2].surface>>

\* C2 as stated: adjacent output rows have strictly increasing readings.
Orig_C2_StrictlyAscending ==
    pc = "done" =>
        \A i \in 1..(Len(results) - 1) : StrLess(results[i][1], results[i + 1][1])

\* C2: the output rows are in ascending code-point order of their readings;
\* adjacent rows either belong to one reading group or the earlier reading
\* is strictly smaller; the readings that occur are exactly the group keys.
Thm_C2_Sorted ==
    pc = "done" =>
        /\ \A i \in 1..(Len(results) - 1) :
              \/ results[i][1] = results[i + 1][1]
              \/ StrLess(results[i][1], results[i + 1][1])
        /\ \A i, j \in 1..Len(results) :
              i < j => ~StrLess(results[j][1], results[i][1])
        /\ { results[i][1] : i \in 1..Len(results) } = DOMAIN by_reading

Wit_C2 ==
    /\ pc = "done"
    /\ \E i \in 1..(Len(results) - 1) : results[i][1] = results[i + 1][1]
    /\ \E i \in 1..(Len(results) - 1) : results[i][1] # results[i + 1][1]

\* C3: the kanji-bearing surfaces registered under one reading are all kept,
\* once each, in the order of their first registration in the batch, in the
\* reading group and in the output rows.
Thm_C3_Homophones ==
    /\ \A r \in DOMAIN kanji_log :
          r \in DOMAIN by_reading /\ by_reading[r].order = kanji_log[r]
    /\ pc = "done" =>
          \A r \in DOMAIN kanji_log : SurfacesOf(results, r) = kanji_log[r]

\* two distinct kanji surfaces of one reading, the second from a later unit
Wit_C3 ==
    /\ pc = "tokens"
    /\ units = 2
    /\ count = 1
    /\ Len(token_infos) = 1
    /\ token_infos[1].reading \in DOMAIN kanji_log
    /\ Len(kanji_log[token_infos[1].reading]) = 2
    /\ kanji_log[token_infos[1].reading][2] = token_infos[1].surface

\* C4 as stated: every unit that meets the phrase condition has its phrase
\* row in the output.
Orig_C4_PhraseRow ==
    pc = "done" => \A p \in phrases : HasRow(results, p)

\* C4: the phrase pair of such a unit (trimmed concatenations of the
\* survivors' reading keys and literal surfaces) is in the output exactly
\* when its surface is non-empty and contains a kanji or no kanji-bearing
\* surface was registered under the phrase reading.
Thm_C4_PhraseRegistered ==
    pc = "done" =>
        \A p \in phrases :
            LET r == Strip(p[1])
                sf == Strip(p[2])
            IN  HasRow(results, <<r, sf>>) <=>
                    /\ r # <<>>
                    /\ sf # <<>>
                    /\ _contains_kanji(sf) \/ r \notin DOMAIN kanji_log

\* one phrase row in the output, and one kana phrase dropped in favour of a
\* kanji surface of the same reading
Wit_C4 ==
    /\ pc = "done"
    /\ \E p \in phrases : HasRow(results, p)
    /\ \E p \in phrases : ~HasRow(results, p) /\ p[1] \in DOMAIN kanji_log

\* C5: the phrase step of a unit with fewer than two survivors, or whose
\* survivors are all nouns, leaves the reading groups as they are.
Thm_C5_NoPhrase ==
    [][ (/\ pc = "tokens"
         /\ pc' = "unit_end"
         /\ \/ Len(token_infos) < 2
            \/ \A i \in 1..Len(token_infos) : token_infos[i].pos_major = NOUN)
        => by_reading' = by_reading /\ phrases' = phrases ]_vars

Wit_C5 ==
    /\ pc = "unit_end"
    /\ Len(token_infos) >= 2
    /\ \A i \in 1..Len(token_infos) : token_infos[i].pos_major = NOUN
    /\ token_infos[1].reading \o token_infos[2].reading \notin DOMAIN by_reading

\* C6: a symbol-class morpheme changes neither the reading groups nor the
\* survivors of its unit, and no survivor is symbol-class.
Thm_C6_SymbolsDiscarded ==
    [][ /\ (MorphemeStep /\ morpheme'.pos = SYMBOL)
            => by_reading' = by_reading /\ token_infos' = token_infos
        /\ \A i \in 1..Len(token_infos') : token_infos'[i].pos_major # SYMBOL ]_vars

\* a symbol with a usable reading and a kanji dictionary form was consumed
\* between two survivors
Wit_C6 ==
    /\ pc = "tokens"
    /\ count = 2
    /\ morpheme.pos = SYMBOL
    /\ morpheme.reading_form # <<>>
    /\ _contains_kanji(morpheme.dictionary_form)
    /\ Len(token_infos) = 1

\* str.strip() of a unit leaves nothing
IsBlank(t) == \A i \in 1..Len(t) : IsSpace(t[i])

\* C7 as stated: an empty or whitespace-only unit is skipped, not analysed,
\* and leaves the reading groups alone.
Orig_C7_BlankUnitsSkipped ==
    [][ (units' = units + 1 /\ IsBlank(text'))
        => pc' = "texts" /\ by_reading' = by_reading ]_vars

\* C9 as stated: the canonical surface is the dictionary form when that has
\* a kanji and the literal surface otherwise; the key is the reading with
\* katakana lowered and every other character unchanged.
Orig_C9_CanonicalAndKey ==
    [][ Survived =>
        LET info == token_infos'[Len(token_infos')]
            m == morpheme'
        IN  /\ info.surface = IF _contains_kanji(m.dictionary_form)
                                THEN m.dictionary_form ELSE m.surface
            /\ Len(info.reading) = Len(m.reading_form)
            /\ \A i \in 1..Len(m.reading_form) :
                  info.reading[i] =
                      IF KATA_LO <= m.reading_form[i] /\ m.reading_form[i] <= KATA_HI
                          THEN m.reading_form[i] - KATA_SHIFT
                          ELSE m.reading_form[i] ]_vars

\* C9: the canonical surface as above; the key is the reading with katakana
\* lowered, the other characters unchanged, and the whitespace at both ends
\* removed; the surface is offered to the group of that key.
Thm_C9_CanonicalAndKey ==
    [][ Survived =>
        LET info == token_infos'[Len(token_infos')]
            m == morpheme'
            key == info.reading
            lowered == [i \in 1..Len(m.reading_form) |->
                           IF KATA_LO <= m.reading_form[i] /\ m.reading_form[i] <= KATA_HI
                               THEN m.reading_form[i] - KATA_SHIFT
                               ELSE m.reading_form[i]]
        IN  /\ info.surface = IF _contains_kanji(m.dictionary_form)
                                THEN m.dictionary_form ELSE m.surface
            /\ info.original_surface = m.surface
            /\ key # <<>>
            /\ ~IsSpace(key[1]) /\ ~IsSpace(key[Len(key)])
            /\ \E a \in 0..Len(lowered) :
                  /\ a + Len(key) <= Len(lowered)
                  /\ SubSeq(lowered, a + 1, a + Len(key)) = key
                  /\ \A i \in 1..Len(lowered) :
                        (i <= a \/ i > a + Len(key)) => IsSpace(lowered[i])
            /\ key \in DOMAIN by_reading'
            /\ \/ InOrder(by_reading'[key].order, info.surface)
               \/ by_reading'[key].has_kanji /\ ~_contains_kanji(info.surface) ]_vars

\* a survivor whose reading starts with whitespace and whose dictionary form
\* is kana that differs from the literal surface
Wit_C9 ==
    /\ pc = "tokens"
    /\ token_infos # <<>>
    /\ ~IsSymbol(morpheme)
    /\ morpheme.reading_form # <<>>
    /\ IsSpace(morpheme.reading_form[1])
    /\ morpheme.dictionary_form # <<>>
    /\ ~_contains_kanji(morpheme.dictionary_form)
    /\ morpheme.dictionary_form # morpheme.surface
    /\ token_infos[Len(token_infos)].surface = morpheme.surface

\* ------------------------------------------------- the other specifications
\* a fresh process: every thread is about to call, the cache slot is empty
InitThreads ==
    /\ lexicon = "spellings"
    /\ pc = "texts"
    /\ units = 0
    /\ text = <<>>
    /\ count = 0
    /\ morpheme = NoMorpheme
    /\ token_infos = <<>>
    /\ by_reading = << >>
    /\ results = <<>>
    /\ kanji_log = << >>
    /\ phrases = {}
    /\ t_pc = [t \in Threads |-> "idle"]
    /\ calls = [t \in Threads |-> 0]
    /\ tokenizer = [t \in Threads |-> NoInstance]
    /\ cache = NoInstance
    /\ built = 0
    /\ raw = <<>>
    /\ once = <<>>
    /\ twice = <<>>
    /\ n_pc = "idle"

SpecThreads == InitThreads /\ [][ThreadsNext]_vars

\* any input string over the alphabet
InitNorm ==
    /\ lexicon = "spellings"
    /\ pc = "texts"
    /\ units = 0
    /\ text = <<>>
    /\ count = 0
    /\ morpheme = NoMorpheme
    /\ token_infos = <<>>
    /\ by_reading = << >>
    /\ results = <<>>
    /\ kanji_log = << >>
    /\ phrases = {}
    /\ t_pc = [t \in Threads |-> "idle"]
    /\ calls = [t \in Threads |-> 0]
    /\ tokenizer = [t \in Threads |-> NoInstance]
    /\ cache = NoInstance
    /\ built = 0
    /\ raw \in StringsUpTo(MaxLen)
    /\ once = <<>>
    /\ twice = <<>>
    /\ n_pc = "raw"

SpecNorm == InitNorm /\ [][NormNext]_vars

\* C8 as stated: the analyzer is constructed at most once, and every call
\* works with the same instance, whatever the interleaving of the threads.
Orig_C8_ConstructedOnce ==
    /\ built <= 1
    /\ \A t \in Threads : tokenizer[t] \in {NoInstance, cache}

\* C10 as stated: normalizing a normalized string changes nothing.
Orig_C10_Idempotent ==
    n_pc = "twice" => twice = once

====
